---- MODULE Spec2Model ----
(***************************************************************************)
(* The user router of the FastAPI backend (backend/app/router/user/        *)
(* router.py): six endpoints over one table of users, a login that issues  *)
(* a signed, time-limited token and a route that demands one.              *)
(*                                                                         *)
(* Every request runs in a slot: it is received (its database session is   *)
(* opened), its handler runs up to each await on the store, the response   *)
(* is produced, and the session is closed.  Handlers of different slots    *)
(* interleave at their awaits.                                             *)
(*                                                                         *)
(* The user service, the token utility, the current-user dependency and    *)
(* the session dependency are imported by router.py but their code is not  *)
(* among the source files; they are modelled from the specification's      *)
(* sections 4.1-4.3 and 5 (the svc_*, create_access_token, decode_token,   *)
(* get_current_user and get_db_session definitions).                       *)
(***************************************************************************)
EXTENDS Integers, Sequences, FiniteSets, TLC

\* ---------------------------------------------------------------- bounds
MaxUsers == 2      \* users ever created (caps the id generator)
MaxReq == 2        \* requests in flight at once
MaxTime == 3       \* minutes the clock runs
MaxTokens == 1     \* issued tokens the clients keep

\* ------------------------------------------------------ program constants
ACCESS_TOKEN_EXPIRE_MINUTES == 2
SECRET_KEY == "secret"

\* ------------------------------------------------------------ input sets
Names == {"A"}
Emails == {"a@x.com", "b@x.com"}
Roles == {"user"}
Passwords == {"p", "q"}

\* An identifier in a path: update's is an int, delete's a UUID; each user
\* row holds both.  A Python int never equals a UUID, whatever their digits.
IntId(n) == [kind |-> "int", val |-> n]
Uuid(n) == [kind |-> "uuid", val |-> n]
NoIdent == [kind |-> "none", val |-> 0]

NoFields == [name |-> "", email |-> "", role |-> "", password |-> ""]
NoToken == [sub |-> "", exp |-> 0, sig |-> <<>>]
NoBody == [users |-> <<>>, token |-> NoToken]

UserCreate == [name : Names, email : Emails, role : Roles, password : Passwords]
\* UserUpdate: every field optional; "" stands for an omitted (None) or empty one.
UserUpdate == [name : {"", "B"}, email : {""}, role : {""}, password : {""}]
LoginForm == [name : {""}, email : Emails, role : {""}, password : Passwords]

Slots == 1..MaxReq

VARIABLES users, nextId, tokens, now, slot, sessions

vars == <<users, nextId, tokens, now, slot, sessions>>

\* ------------------------------------------------------ handler helpers
Truthy(v) == v # ""
\* Python's `a or b` on strings
Or(a, b) == IF Truthy(a) THEN a ELSE b

\* update_user's lines 96-100: each field overwritten only by a truthy value.
MergeFields(existing_user, user) ==
    [existing_user EXCEPT !.name = Or(user.name, existing_user.name),
                          !.email = Or(user.email, existing_user.email),
                          !.role = Or(user.role, existing_user.role),
                          !.password = Or(user.password, existing_user.password)]

\* add_user's lines 57-62: the UserModel built from the UserCreate body.
new_user_no_password(user) ==
    [name |-> user.name, email |-> user.email, role |-> user.role, password |-> ""]

new_user(user) ==
    [name |-> user.name, email |-> user.email, role |-> user.role,
     password |-> user.password]

\* get_users' lines 34-36: an empty result is returned as an empty list.
list_result(result) == IF result = <<>> THEN <<>> ELSE result

\* The clients keep at most MaxTokens of the tokens issued to them.
Keep(held, tok) == IF Cardinality(held \cup {tok}) <= MaxTokens THEN held \cup {tok} ELSE held

\* ------------------------------------------------- the user service (4.1)
\* list(filter?): all rows, or those whose uuid equals the filter.
svc_get_users(table, filter) ==
    IF filter = NoIdent THEN table
    ELSE SelectSeq(table, LAMBDA u : u.uuid = filter)

\* add(record): the store generates id and uuid; a duplicate email is a
\* constraint violation, a store-level error.
svc_add_user(table, new, nid) ==
    IF \E i \in 1..Len(table) : table[i].email = new.email
    THEN [ok |-> FALSE, table |-> table, row |-> <<>>]
    ELSE LET row == [id |-> nid, uuid |-> Uuid(nid), name |-> new.name,
                     email |-> new.email, role |-> new.role,
                     password |-> new.password]
         IN [ok |-> TRUE, table |-> Append(table, row), row |-> <<row>>]

\* update(record): persists the fetched record's fields; falsy when no row is left.
svc_update_user(table, rec) ==
    IF \E i \in 1..Len(table) : table[i].id = rec.id
    THEN [ok |-> TRUE,
          table |-> [i \in 1..Len(table) |->
                        IF table[i].id = rec.id THEN rec ELSE table[i]]]
    ELSE [ok |-> FALSE, table |-> table]

\* delete(uuid): removes the matching row; NoResultFound when none matches.
svc_delete_user(table, uuid) ==
    IF \E i \in 1..Len(table) : table[i].uuid = uuid
    THEN [found |-> TRUE, table |-> SelectSeq(table, LAMBDA u : u.uuid # uuid)]
    ELSE [found |-> FALSE, table |-> table]

\* verify(email, password): the row with that email, if its password is equal.
svc_verify_user(table, email, password) ==
    SelectSeq(table, LAMBDA u : u.email = email /\ u.password = password)

\* -------------------------------------------------- the token utility (4.2)
Sign(key, sub, exp) == <<key, sub, exp>>

create_access_token(sub, expires_delta, t) ==
    [sub |-> sub, exp |-> t + expires_delta,
     sig |-> Sign(SECRET_KEY, sub, t + expires_delta)]

decode_token(tok, t) ==
    /\ tok # NoToken
    /\ tok.sig = Sign(SECRET_KEY, tok.sub, tok.exp)
    /\ t < tok.exp

\* ------------------------------------- the current-user dependency (4.3)
get_current_user(table, tok, t) ==
    /\ decode_token(tok, t)
    /\ \E i \in 1..Len(table) : table[i].email = tok.sub

\* What a client can do to a token it holds: change the subject, push the
\* expiry, or sign with another key.
Tamper(tok) ==
    {[tok EXCEPT !.sub = e] : e \in Emails \ {tok.sub}}
    \cup {[tok EXCEPT !.exp = MaxTime + ACCESS_TOKEN_EXPIRE_MINUTES + 1]}
    \cup {[tok EXCEPT !.sig = Sign("forged", tok.sub, tok.exp)]}

\* ------------------------------------------- the session dependency (5)
\* One module-level session handed to every request.
get_db_session_shared(r) == 1

\* get_db_session: a session of the request's own, closed when it ends.
get_db_session(r) == r

\* --------------------------------------------------------------- requests
Idle == [op |-> "none", pc |-> "idle", ident |-> NoIdent, form |-> NoFields,
         token |-> NoToken, sess |-> 0, existing |-> <<>>, status |-> 0,
         headers |-> "", body |-> NoBody]

Request(op, ident, form, token) ==
    [Idle EXCEPT !.op = op, !.ident = ident, !.form = form, !.token = token]

ReadRequests == {Request("get_users", NoIdent, NoFields, NoToken)}

WriteRequests ==
    {Request("add_user", NoIdent, f, NoToken) : f \in UserCreate}
    \cup {Request("update_user", IntId(n), f, NoToken) : n \in 1..MaxUsers, f \in UserUpdate}
    \cup {Request("delete_user", Uuid(n), NoFields, NoToken) : n \in 1..MaxUsers}

AuthRequests ==
    {Request("login", NoIdent, f, NoToken) : f \in LoginForm}
    \cup {Request("protected_route", NoIdent, NoFields, t) :
              t \in {NoToken} \cup tokens \cup UNION {Tamper(k) : k \in tokens}}

\* Requests of one endpoint whose handler has not answered yet.
Pending(op) == Cardinality({r \in Slots : slot[r].op = op /\ slot[r].pc = "run"})

\* The handler returns or raises: the response is recorded beside the request.
Respond(r, status, headers, body) ==
    slot' = [slot EXCEPT ![r].pc = "respond", ![r].status = status,
                         ![r].headers = headers, ![r].body = body]

Init ==
    /\ users = <<>>
    /\ nextId = 1
    /\ tokens = {}
    /\ now = 0
    /\ slot = [r \in Slots |-> Idle]
    /\ sessions = {}

\* A request arrives: Depends(get_db_session) opens its session.
Receive(r, reqs) ==
    /\ slot[r].pc = "idle"
    /\ \A q \in Slots : q < r => slot[q].pc # "idle"
    /\ \E q \in reqs :
          LET s == get_db_session(r)
          IN /\ q.op = "add_user" => nextId + Pending("add_user") <= MaxUsers
             /\ slot' = [slot EXCEPT ![r] = [q EXCEPT !.pc = "run", !.sess = s]]
             /\ sessions' = sessions \cup {s}
    /\ UNCHANGED <<users, nextId, tokens, now>>

\* GET /user/
get_users(r) ==
    /\ slot[r].pc = "run" /\ slot[r].op = "get_users"
    /\ LET result == svc_get_users(users, NoIdent)
       IN Respond(r, 200, "", [NoBody EXCEPT !.users = list_result(result)])
    /\ UNCHANGED <<users, nextId, tokens, now, sessions>>

\* POST /user/
add_user(r) ==
    /\ slot[r].pc = "run" /\ slot[r].op = "add_user"
    /\ LET added == svc_add_user(users, new_user(slot[r].form), nextId)
       IN IF added.ok
          THEN /\ users' = added.table
               /\ nextId' = nextId + 1
               /\ Respond(r, 200, "", [NoBody EXCEPT !.users = added.row])
          ELSE /\ Respond(r, 500, "", NoBody)
               /\ UNCHANGED <<users, nextId>>
    /\ UNCHANGED <<tokens, now, sessions>>

\* PUT /user/{user_id}: lines 87-100 up to the await of the persistence call,
\* lines 102-109 after it.  The path id is an int and line 88 hands it to the
\* filter by UUID, so the lookup is empty for every request and the second
\* branch is never enabled (C5).
update_user(r) ==
    /\ slot[r].op = "update_user"
    /\ \/ /\ slot[r].pc = "run"
          /\ LET existing_user == svc_get_users(users, slot[r].ident)
             IN IF existing_user = <<>>
                THEN Respond(r, 404, "", NoBody)
                ELSE slot' = [slot EXCEPT ![r].pc = "persist",
                                 ![r].existing = <<MergeFields(existing_user[1], slot[r].form)>>]
          /\ UNCHANGED users
       \/ /\ slot[r].pc = "persist"
          /\ LET updated == svc_update_user(users, slot[r].existing[1])
             IN /\ users' = updated.table
                /\ IF ~updated.ok
                   THEN Respond(r, 400, "", NoBody)
                   ELSE Respond(r, 200, "", [NoBody EXCEPT !.users = slot[r].existing])
    /\ UNCHANGED <<nextId, tokens, now, sessions>>

\* DELETE /user/{user_id}: the lookup and its 404 (lines 129-136).
delete_user_lookup(r) ==
    /\ slot[r].pc = "run" /\ slot[r].op = "delete_user"
    /\ LET existing_user == svc_get_users(users, slot[r].ident)
       IN IF existing_user = <<>>
          THEN Respond(r, 404, "", NoBody)
          ELSE slot' = [slot EXCEPT ![r].pc = "remove", ![r].existing = existing_user]
    /\ UNCHANGED <<users, nextId, tokens, now, sessions>>

\* delete_user with the except clause answering as the success path does.
delete_user_remove_swallow(r) ==
    /\ slot[r].pc = "remove" /\ slot[r].op = "delete_user"
    /\ LET deleted == svc_delete_user(users, slot[r].existing[1].uuid)
       IN /\ users' = deleted.table
          /\ Respond(r, 204, "", NoBody)
    /\ UNCHANGED <<nextId, tokens, now, sessions>>

\* delete_user without the except clause: NoResultFound leaves the handler.
delete_user_remove_uncaught(r) ==
    /\ slot[r].pc = "remove" /\ slot[r].op = "delete_user"
    /\ LET deleted == svc_delete_user(users, slot[r].existing[1].uuid)
       IN /\ users' = deleted.table
          /\ IF ~deleted.found
             THEN Respond(r, 500, "", NoBody)
             ELSE Respond(r, 204, "", NoBody)
    /\ UNCHANGED <<nextId, tokens, now, sessions>>

\* DELETE /user/{user_id}: the removal and its 400 (lines 138-146).
delete_user_remove(r) ==
    /\ slot[r].pc = "remove" /\ slot[r].op = "delete_user"
    /\ LET deleted == svc_delete_user(users, slot[r].existing[1].uuid)
       IN /\ users' = deleted.table
          /\ IF ~deleted.found
             THEN Respond(r, 400, "", NoBody)
             ELSE Respond(r, 204, "", NoBody)
    /\ UNCHANGED <<nextId, tokens, now, sessions>>

\* login's lines 171-174 with the lifetime left out of the call.
login_access_token_no_ttl(user, t) == create_access_token(user.email, 0, t)

\* login's lines 171-174: the token for the verified user's email.
login_access_token(user, t) ==
    create_access_token(user.email, ACCESS_TOKEN_EXPIRE_MINUTES, t)

\* login without the check of line 164: a token for whoever asks.
login_always_token(r) ==
    /\ slot[r].pc = "run" /\ slot[r].op = "login"
    /\ LET access_token ==
               create_access_token(slot[r].form.email, ACCESS_TOKEN_EXPIRE_MINUTES, now)
       IN /\ Respond(r, 200, "", [NoBody EXCEPT !.token = access_token])
          /\ tokens' = Keep(tokens, access_token)
    /\ UNCHANGED <<users, nextId, now, sessions>>

\* POST /user/login
login(r) ==
    /\ slot[r].pc = "run" /\ slot[r].op = "login"
    /\ LET user == svc_verify_user(users, slot[r].form.email, slot[r].form.password)
       IN IF user = <<>>
          THEN /\ Respond(r, 401, "WWW-Authenticate: Bearer", NoBody)
               /\ UNCHANGED tokens
          ELSE LET access_token == login_access_token(user[1], now)
               IN /\ Respond(r, 200, "", [NoBody EXCEPT !.token = access_token])
                  /\ tokens' = Keep(tokens, access_token)
    /\ UNCHANGED <<users, nextId, now, sessions>>

\* protected_route without dependencies=[Depends(get_current_user)].
protected_route_open(r) ==
    /\ slot[r].pc = "run" /\ slot[r].op = "protected_route"
    /\ Respond(r, 200, "", NoBody)
    /\ UNCHANGED <<users, nextId, tokens, now, sessions>>

\* GET /user/protected-route
protected_route(r) ==
    /\ slot[r].pc = "run" /\ slot[r].op = "protected_route"
    /\ IF get_current_user(users, slot[r].token, now)
       THEN Respond(r, 200, "", NoBody)
       ELSE Respond(r, 401, "WWW-Authenticate: Bearer", NoBody)
    /\ UNCHANGED <<users, nextId, tokens, now, sessions>>

\* The request ends: the session dependency closes the session.
Finish(r) ==
    /\ slot[r].pc = "respond"
    /\ sessions' = sessions \ {slot[r].sess}
    /\ slot' = [slot EXCEPT ![r] = Idle]
    /\ UNCHANGED <<users, nextId, tokens, now>>

Tick ==
    /\ now < MaxTime
    /\ now' = now + 1
    /\ UNCHANGED <<users, nextId, tokens, slot, sessions>>

Requests == ReadRequests \cup WriteRequests \cup AuthRequests

\* The requests that write the table, interleaving at their awaits.  The
\* list, login and protected-route handlers never write the table and are
\* left out here.
Next ==
    \/ \E r \in Slots : Receive(r, WriteRequests)
    \/ \E r \in Slots : add_user(r)
    \/ \E r \in Slots : update_user(r)
    \/ \E r \in Slots : delete_user_lookup(r)
    \/ \E r \in Slots : delete_user_remove(r)
    \/ \E r \in Slots : Finish(r)

Spec == Init /\ [][Next]_vars

Alone == \A q \in Slots : slot[q].pc = "idle"

\* Every endpoint and the clock, one request at a time: the sequences of
\* operations between a login and the use of its token.
NextAuth ==
    \/ \E r \in Slots : Alone /\ Receive(r, Requests)
    \/ \E r \in Slots : get_users(r)
    \/ \E r \in Slots : add_user(r)
    \/ \E r \in Slots : update_user(r)
    \/ \E r \in Slots : delete_user_lookup(r)
    \/ \E r \in Slots : delete_user_remove(r)
    \/ \E r \in Slots : login(r)
    \/ \E r \in Slots : protected_route(r)
    \/ \E r \in Slots : Finish(r)
    \/ Tick

SpecAuth == Init /\ [][NextAuth]_vars

\* Every handler step of the request in slot r.
Handle(r) ==
    \/ get_users(r)
    \/ add_user(r)
    \/ update_user(r)
    \/ delete_user_lookup(r)
    \/ delete_user_remove(r)
    \/ login(r)
    \/ protected_route(r)

\* One user's worth of requests: enough to take every exit of every handler.
OneUserRequests ==
    {q \in Requests : /\ q.form.email \in {"", "a@x.com"}
                      /\ q.form.name = ""  \/ q.op = "add_user"
                      /\ q.ident.val <= 1
                      /\ q.token.sub \in {"", "a@x.com"}}

\* Every endpoint, interleaving.
NextAll ==
    \/ \E r \in Slots : Receive(r, OneUserRequests)
    \/ \E r \in Slots : Handle(r)
    \/ \E r \in Slots : Finish(r)

\* The event loop resumes every handler whose store call has returned, and
\* the framework runs the session dependency's exit once the handler has ended.
SpecFair ==
    /\ Init /\ [][NextAll]_vars
    /\ \A r \in Slots : WF_vars(Handle(r)) /\ WF_vars(Finish(r))

\* ------------------------------------------------------------ properties
\* The step in which the handler of slot r produces its response.
Answers(r) == slot[r].pc # "respond" /\ slot'[r].pc = "respond"

Count(table, id) == Cardinality({i \in 1..Len(table) : table[i].id = id})
HasUuid(table, u) == \E i \in 1..Len(table) : table[i].uuid = u
HasEmail(table, e) == \E i \in 1..Len(table) : table[i].email = e

\* C4: after a create that answered 200 the table lists the created user
\* exactly once, with a generated id and uuid and the submitted fields, and
\* every row stored before is still there unchanged; a list request answers
\* with exactly the stored rows.
C4_CreatedUserListedOnce ==
    [][\A r \in Slots :
        /\ (slot[r].op = "add_user" /\ Answers(r) /\ slot'[r].status = 200) =>
              LET f == slot[r].form
                  listing == list_result(svc_get_users(users', NoIdent))
                  row == slot'[r].body.users[1]
              IN /\ Len(slot'[r].body.users) = 1
                 /\ Count(listing, row.id) = 1
                 /\ Cardinality({i \in 1..Len(listing) : listing[i] = row}) = 1
                 /\ row.name = f.name /\ row.email = f.email
                 /\ row.role = f.role /\ row.password = f.password
                 /\ row.uuid.kind = "uuid"
                 /\ ~HasUuid(users, row.uuid) /\ Count(users, row.id) = 0
                 /\ Len(listing) = Len(users) + 1
                 /\ \A i \in 1..Len(users) : listing[i] = users[i]
        /\ (slot[r].op = "get_users" /\ Answers(r)) =>
              /\ slot'[r].status = 200
              /\ slot'[r].body.users = users
    ]_vars

C4_Witness ==
    \E r \in Slots :
        /\ slot[r].op = "get_users" /\ slot[r].pc = "respond"
        /\ Len(slot[r].body.users) = 2
        /\ slot[r].body.users = users

\* C7: a delete whose UUID matches no stored user answers 404 and leaves the
\* table as it was; a 204 is answered only in a step that removes the stored
\* user with that UUID.
C7_DeleteMissingIs404 ==
    [][\A r \in Slots : (slot[r].op = "delete_user" /\ Answers(r)) =>
        /\ (slot[r].pc = "run" /\ ~HasUuid(users, slot[r].ident)) =>
              (slot'[r].status = 404 /\ users' = users)
        /\ slot'[r].status = 204 =>
              (HasUuid(users, slot[r].ident) /\ ~HasUuid(users', slot[r].ident))
    ]_vars

C7_Witness ==
    \E r \in Slots :
        /\ slot[r].op = "delete_user" /\ slot[r].pc = "respond"
        /\ slot[r].status = 404
        /\ users # <<>>

\* C10: of the delete requests for one UUID that are answered, at most one
\* is answered 204 and every one with 204, 404 or 400; the removal of a
\* request that found the user answers 204 and removes that row alone when
\* the row is still stored, and answers 400 with the table untouched when
\* another request has removed it since the lookup.
C10_ConcurrentDeletes ==
    /\ [](\A r \in Slots : (slot[r].op = "delete_user" /\ slot[r].pc = "respond") =>
            /\ slot[r].status \in {204, 404, 400}
            /\ \A q \in Slots \ {r} :
                  (slot[q].op = "delete_user" /\ slot[q].pc = "respond"
                   /\ slot[q].ident = slot[r].ident) =>
                      ~(slot[q].status = 204 /\ slot[r].status = 204))
    /\ [][\A r \in Slots : (slot[r].op = "delete_user" /\ slot[r].pc = "remove" /\ Answers(r)) =>
            IF HasUuid(users, slot[r].ident)
            THEN /\ slot'[r].status = 204
                 /\ users' = SelectSeq(users, LAMBDA u : u.uuid # slot[r].ident)
                 /\ Len(users') = Len(users) - 1
            ELSE /\ slot'[r].status = 400
                 /\ users' = users
       ]_vars

C10_Witness ==
    \E r, q \in Slots :
        /\ r # q
        /\ slot[r].op = "delete_user" /\ slot[q].op = "delete_user"
        /\ slot[r].ident = slot[q].ident
        /\ slot[r].pc = "respond" /\ slot[q].pc = "respond"
        /\ slot[r].status = 204 /\ slot[q].status = 400
        /\ users # <<>>

\* Whether some stored user has this email and this password.
Stored(table, email, password) ==
    \E i \in 1..Len(table) : table[i].email = email /\ table[i].password = password

ValidlySigned(tok) == tok # NoToken /\ tok.sig = Sign(SECRET_KEY, tok.sub, tok.exp)

\* What both readings of C1 share: a login with a stored user's email and
\* password answers 200 with a token for that email that expires
\* ACCESS_TOKEN_EXPIRE_MINUTES later, and the protected route answers 401 to
\* an issued token that has expired and to a tampered copy of an issued token.
C1_LoginAndRejections(r) ==
    /\ (slot[r].op = "login" /\ Answers(r)
        /\ Stored(users, slot[r].form.email, slot[r].form.password)) =>
          LET tok == slot'[r].body.token
          IN /\ slot'[r].status = 200
             /\ tok.sub = slot[r].form.email
             /\ tok.exp = now + ACCESS_TOKEN_EXPIRE_MINUTES
             /\ ValidlySigned(tok)
             /\ Cardinality(tokens) < MaxTokens => tok \in tokens'
    /\ (slot[r].op = "protected_route" /\ Answers(r)) =>
          LET tok == slot[r].token
          IN /\ (tok \in tokens /\ now >= tok.exp) => slot'[r].status = 401
             /\ (\E k \in tokens : tok \in Tamper(k)) => slot'[r].status = 401

\* C1 (as amended): a login with a stored user's email and password answers
\* 200 with a token; that token presented before its expiry is answered 200
\* as long as a stored user has the token's subject email; an expired or a
\* tampered token is answered 401.
C1_TokenOpensRouteWhileUserStored ==
    [][\A r \in Slots :
        /\ C1_LoginAndRejections(r)
        /\ (slot[r].op = "protected_route" /\ Answers(r)
            /\ slot[r].token \in tokens /\ now < slot[r].token.exp
            /\ HasEmail(users, slot[r].token.sub)) => slot'[r].status = 200
    ]_vars

\* C1 as claimed: the issued token presented before its expiry is answered
\* 200 whatever happened since the login.
C1_TokenOpensRouteWhatever ==
    [][\A r \in Slots :
        /\ C1_LoginAndRejections(r)
        /\ (slot[r].op = "protected_route" /\ Answers(r)
            /\ slot[r].token \in tokens /\ now < slot[r].token.exp) =>
              slot'[r].status = 200
    ]_vars

C1_Witness ==
    \E r \in Slots :
        /\ slot[r].op = "protected_route" /\ slot[r].pc = "respond"
        /\ slot[r].token \in tokens
        /\ slot[r].status = 200

\* C2: a login whose email and password are not those of a stored user
\* answers 401 with the Bearer challenge, carries no token, issues none and
\* leaves the user table as it was.
C2_FailedLoginIssuesNothing ==
    [][\A r \in Slots :
        (slot[r].op = "login" /\ Answers(r)
         /\ ~Stored(users, slot[r].form.email, slot[r].form.password)) =>
            /\ slot'[r].status = 401
            /\ slot'[r].headers = "WWW-Authenticate: Bearer"
            /\ slot'[r].body.token = NoToken
            /\ tokens' = tokens
            /\ users' = users
    ]_vars

C2_Witness ==
    \E r \in Slots :
        /\ slot[r].op = "login" /\ slot[r].pc = "respond"
        /\ HasEmail(users, slot[r].form.email)
        /\ ~Stored(users, slot[r].form.email, slot[r].form.password)
        /\ slot[r].status = 401

\* C3: a validly signed, unexpired token whose subject email no stored user
\* has is answered 401 by the protected route.
C3_TokenOfMissingUserIs401 ==
    [][\A r \in Slots :
        (slot[r].op = "protected_route" /\ Answers(r)
         /\ ValidlySigned(slot[r].token) /\ now < slot[r].token.exp
         /\ ~HasEmail(users, slot[r].token.sub)) => slot'[r].status = 401
    ]_vars

C3_Witness ==
    \E r \in Slots :
        /\ slot[r].op = "protected_route" /\ slot[r].pc = "respond"
        /\ ValidlySigned(slot[r].token) /\ now < slot[r].token.exp
        /\ ~HasEmail(users, slot[r].token.sub)
        /\ slot[r].status = 401

\* C5 (as claimed): the lookup of an update addressed to the numeric id of a
\* stored user resolves that user and the request goes on to persist, and an
\* update addressed to an id no user has answers 404.
C5_UpdateResolvesNumericId ==
    [][\A r \in Slots :
        (slot[r].op = "update_user" /\ slot[r].pc = "run" /\ slot'[r].pc # "run") =>
            IF Count(users, slot[r].ident.val) > 0
            THEN /\ slot'[r].pc = "persist"
                 /\ slot'[r].existing[1].id = slot[r].ident.val
            ELSE slot'[r].pc = "respond" /\ slot'[r].status = 404
    ]_vars

C8_SessionPerRequestReleased ==
    /\ [](/\ \A r \in Slots : slot[r].pc # "idle" =>
                /\ slot[r].sess \in sessions
                /\ \A q \in Slots \ {r} : slot[q].pc # "idle" => slot[q].sess # slot[r].sess
          /\ Cardinality(sessions) = Cardinality({r \in Slots : slot[r].pc # "idle"}))
    /\ \A r \in Slots : []<>(slot[r].pc = "idle")

C8_Witness ==
    \E r, q \in Slots :
        /\ r # q
        /\ slot[r].pc = "respond" /\ slot[r].status = 500
        /\ slot[q].pc = "respond" /\ slot[q].status = 401
        /\ {slot[r].sess, slot[q].sess} \subseteq sessions
        /\ slot[r].sess # slot[q].sess
====
